---- MODULE Spec2Model ----
(***************************************************************************)
(* mcp-of-mcps: a meta-server that aggregates downstream MCP servers.      *)
(*                                                                         *)
(* The model covers the startup orchestration (spawn, register, orphan     *)
(* reconciliation, index rebuild, sandbox materialization, transport       *)
(* bind), the meta-tool handlers, the sandbox run with its output cache    *)
(* and schema-inference drain, and the start of a process on the store a   *)
(* previous process left behind.                                           *)
(*                                                                         *)
(* Text (server names, tool names, titles, tool paths) is a sequence of    *)
(* one-character strings, so that sanitization and path splitting are      *)
(* computed and not assumed.                                               *)
(***************************************************************************)
EXTENDS Integers, Sequences, FiniteSets, TLC

(***************************************************************************)
(* Bounds of the model                                                     *)
(***************************************************************************)
\* number of upstream requests that may be in flight at the same time
MaxInFlight == 2
\* number of captured outputs the cache may hold at a time
MaxCaptured == 2
\* length of the tool names the title conversion is applied to
MaxNameLen == 3

(***************************************************************************)
(* The downstream world                                                    *)
(***************************************************************************)
SA == <<"A">>
SB == <<"B">>
Servers == {SA, SB}

N1 == <<"g", "/", "f">>
N2 == <<"a", "/", "b">>
N3 == <<"a", "_", "b">>

\* the tools each downstream server advertises, in listTools order
\* (the two tool names of A have the same sanitized title)
LiveTools(s) == IF s = SA THEN <<N2, N3>> ELSE <<N1>>

\* the outputSchema values a downstream server may advertise for a tool, one
\* per process start ("none": the tool is listed without outputSchema)
LiveSchemas(n) ==
  IF n = N1 THEN {"none", "L1", "L2"}
  ELSE {"none"}

\* raw callTool responses; a field that is absent reads "absent"
Responses ==
  { [content |-> "c1", isError |-> "absent"],
    [content |-> "absent", isError |-> "true"] }

Reqs == 1 .. MaxInFlight

\* what client.getInstructions() returns for a server (<<>>: nothing)
Instructions(s) == IF s = SB THEN <<"i">> ELSE <<>>

(***************************************************************************)
(* Pure helpers                                                            *)
(***************************************************************************)
Letters == {"a", "b", "f", "g", "z", "A", "B", "X"}
Digits == {"1", "2"}
IdentChars == Letters \cup Digits \cup {"_"}

RECURSIVE ReplaceRuns(_, _)
ReplaceRuns(x, inRun) ==
  IF x = <<>> THEN <<>>
  ELSE IF Head(x) \in IdentChars
       THEN <<Head(x)>> \o ReplaceRuns(Tail(x), FALSE)
       ELSE IF inRun THEN ReplaceRuns(Tail(x), TRUE)
            ELSE <<"_">> \o ReplaceRuns(Tail(x), TRUE)

\* a conversion that puts "_" in front of every result that does not start
\* with a letter
convertToolNameLetterFirst(name) ==
  LET r == ReplaceRuns(name, FALSE)
  IN  IF r # <<>> /\ Head(r) \notin Letters THEN <<"_">> \o r ELSE r

\* utils.convertToolName: the sanitized title of a downstream tool name
convertToolName(name) ==
  LET r == ReplaceRuns(name, FALSE)
  IN  IF r # <<>> /\ Head(r) \in Digits THEN <<"_">> \o r ELSE r

\* utils.convertOutputToSchema: structural generalization of a response
convertOutputToSchema(output) ==
  IF output.content # "absent" /\ output.isError # "absent" THEN "I_ce"
  ELSE IF output.content # "absent" THEN "I_c"
  ELSE IF output.isError # "absent" THEN "I_e"
  ELSE "I_"


VARIABLES
  pc,          \* position of McpOfMcps.start in the current process
  config,      \* server descriptors of the current process (names)
  conn,        \* C1: per configured server "pending" | "ok" | "failed"
  reg,         \* per server: position of its registerServer call
  serversInfo, \* C5: the registry map, in insertion order
  toolsParser, \* whether the tools parser has been constructed
  db,          \* C2: persisted rows, (server, tool) -> row
  dbBefore,    \* C2 as the previous process left it
  indexBefore, \* C4's index directory as the previous process left it
  live,        \* per server: the outputSchema list of its listTools answer
  index,       \* C4: ids of the vector records
  files,       \* C7: stub files, (server, title) -> downstream tool name
  sbServers,   \* C7: keys of the sandbox's own serversInfo map
  sbReady,     \* whether SandboxManagerImpl.initialize has run
  cache,       \* C7: toolOutputCache, server -> sequence of entries
  req,         \* per request slot: what the request is doing
  lastResp,    \* the last answer given to an upstream request
  exitCode     \* "running" | "1"

vars == <<pc, config, conn, reg, serversInfo, toolsParser, db, dbBefore,
          indexBefore, live,
          index, files, sbServers, sbReady, cache, req, lastResp, exitCode>>

memVars == <<serversInfo, toolsParser, index, files, sbServers, sbReady, cache>>

(***************************************************************************)
(* C5 and C2 accessors                                                     *)
(***************************************************************************)
\* ServersRegistry.hasServer / getServerNames
RegisteredServers == {serversInfo[i].name : i \in DOMAIN serversInfo}

hasServer(s) == s \in RegisteredServers

\* ServersRegistry.getServer (only used when hasServer(s))
getServer(s) ==
  serversInfo[CHOOSE i \in DOMAIN serversInfo : serversInfo[i].name = s]

\* MCPConnection.getAllConnections: the names that have a live handle
Connections == {s \in config : conn[s] = "ok"}

\* C2.listAllServers
listAllServers(d) == {k[1] : k \in DOMAIN d}

\* C2.getTool: the row, or "none"
HasRow(d, s, n) == <<s, n>> \in DOMAIN d

\* no request has been answered yet. drained: the (server, tool) keys of
\* the captured outputs the drain of the answered call went through
NoResp == [tool |-> "none", escaped |-> FALSE, prefix |-> "", body |-> "",
           isError |-> "absent", ranScript |-> FALSE, drained |-> {},
           failed |-> {}, arg |-> <<>>, value |-> <<>>]

\* calls: the downstream calls the stubs of the request have issued and
\* that are not answered yet
\* last is no field of the code: the outcome of the stub call the script
\* of the request saw last threw ("none" | "threw"). drain: empty, or the
\* place of the request's updateOutputSchema in its loops
IdleReq == [pc |-> "idle", calls |-> <<>>, last |-> "none", drain |-> <<>>]

(***************************************************************************)
(* C2: the persistent tool store                                           *)
(***************************************************************************)
EmptyDb == [k \in {} |-> 0]

Row(schema, original) ==
  [outputSchema |-> schema, originalOutputSchema |-> original]

PutRow(d, s, n, row) ==
  [k \in DOMAIN d \cup {<<s, n>>} |-> IF k = <<s, n>> THEN row ELSE d[k]]

\* C2.saveOrUpdate: an inferred write never replaces an original row, a
\* write of a schema that came from the server always wins
saveOrUpdate(d, s, n, schema, original) ==
  IF ~original /\ HasRow(d, s, n) /\ d[<<s, n>>].originalOutputSchema
  THEN d
  ELSE PutRow(d, s, n, Row(schema, original))

\* C2.updateTool as SandboxManagerImpl.updateOutputSchema calls it: the row
\* of (s, n) gets the schema and the flag it is given
updateTool(d, s, n, schema, original) == PutRow(d, s, n, Row(schema, original))

\* C2.deleteServerTools
deleteServerTools(d, s) == [k \in {x \in DOMAIN d : x[1] # s} |-> d[k]]

(***************************************************************************)
(* C5: registration                                                        *)
(***************************************************************************)
\* registerServer writing the listed descriptor over whatever row exists
SyncToolOverwrites(d, s, n, ls) == updateTool(d, s, n, ls, ls # "none")

\* registerServer, the store side of one tool whose live schema is ls
SyncTool(d, s, n, ls) ==
  IF ls # "none" THEN saveOrUpdate(d, s, n, ls, TRUE)
  ELSE IF HasRow(d, s, n) THEN d
  ELSE saveOrUpdate(d, s, n, "none", FALSE)

\* registerServer, the in-memory outputSchema of that tool: the live one,
\* else the persisted original that is injected
InjectedSchema(d, s, n, ls) ==
  IF ls # "none" THEN ls
  ELSE IF HasRow(d, s, n) /\ d[<<s, n>>].originalOutputSchema
       THEN d[<<s, n>>].outputSchema
       ELSE "none"

\* the store after the first k tools of the list have been persisted
RECURSIVE SyncPrefix(_, _, _, _, _)
SyncPrefix(d, s, names, ls, k) ==
  IF k = 0 THEN d
  ELSE SyncTool(SyncPrefix(d, s, names, ls, k - 1), s, names[k], ls[k])

\* registerServer storing the listed tools as the server sent them
RegisteredToolsAsListed(d, s, names, ls) ==
  [i \in DOMAIN names |->
     [name |-> names[i],
      title |-> convertToolName(names[i]),
      outputSchema |-> ls[i]]]

\* the Tool objects registerServer stores for a listTools response
RegisteredTools(d, s, names, ls) ==
  [i \in DOMAIN names |->
     [name |-> names[i],
      title |-> convertToolName(names[i]),
      outputSchema |-> InjectedSchema(d, s, names[i], ls[i])]]

\* registerServer's two checks before it fetches the tool list
CanRegister(s) == ~hasServer(s) /\ s \in Connections

\* C5.reconcileOrphans: rows of servers that are not in C5 are deleted
reconcileOrphans(d) ==
  [k \in {x \in DOMAIN d : x[1] \in RegisteredServers} |-> d[k]]

\* the (server, tool) pairs of C5
RegistryPairs ==
  UNION { {<<serversInfo[i].name, serversInfo[i].tools[j].name>> :
             j \in DOMAIN serversInfo[i].tools} : i \in DOMAIN serversInfo }

(***************************************************************************)
(* C7: materialization                                                     *)
(***************************************************************************)
EmptyFiles == [k \in {} |-> 0]

\* createSandboxStructure for one server: the first w stub files of its
\* tool list are written, a later file of the same title replaces an
\* earlier one
RECURSIVE WriteStubs(_, _, _, _)
WriteStubs(f, s, tools, w) ==
  IF w = 0 THEN f
  ELSE LET g == WriteStubs(f, s, tools, w - 1)
           key == <<s, tools[w].title>>
       IN  [k \in DOMAIN g \cup {key} |->
              IF k = key THEN tools[w].name ELSE g[k]]

\* createSandboxStructure: every server of the map in turn; written[s] is
\* the number of files of s that are written before a failure (all of them
\* when nothing fails)
RECURSIVE createSandboxStructure(_, _, _)
createSandboxStructure(f, i, written) ==
  IF i = 0 THEN f
  ELSE WriteStubs(createSandboxStructure(f, i - 1, written),
                  serversInfo[i].name, serversInfo[i].tools,
                  written[serversInfo[i].name])

\* clearAndSetToolOutCache: one empty bucket per server of the sandbox map
clearAndSetToolOutCache(keys) == [s \in keys |-> <<>>]

(***************************************************************************)
(* Startup: McpOfMcps.start                                                *)
(***************************************************************************)
\* the process has been constructed: the registry is empty, the sandbox
\* folder has been wiped, nothing is connected
InitMemory ==
  /\ pc = "open"
  /\ config \in (SUBSET Servers) \ {{}}
  /\ conn = [s \in Servers |-> "none"]
  /\ reg = [s \in Servers |-> "none"]
  /\ serversInfo = <<>>
  /\ toolsParser = FALSE
  /\ files = EmptyFiles
  /\ sbServers = {}
  /\ sbReady = FALSE
  /\ cache = [s \in {} |-> <<>>]
  /\ req = [r \in Reqs |-> IdleReq]
  /\ lastResp = NoResp
  /\ exitCode = "running"
  /\ live = [s \in Servers |-> <<>>]

\* the first start of the process: the store holds no row yet
Init ==
  /\ InitMemory
  /\ index = {}
  /\ indexBefore = {}
  /\ db = EmptyDb
  /\ dbBefore = EmptyDb

\* the rows a process can have left for tool n: the schema the server
\* advertised, no schema yet, or a schema inferred from a response
PersistedRows(n) ==
  {Row(l, TRUE) : l \in LiveSchemas(n) \ {"none"}}
    \cup {Row("none", FALSE)}
    \cup {Row(convertOutputToSchema(r), FALSE) : r \in Responses}

AllKeys == UNION {{<<s, LiveTools(s)[i]>> : i \in DOMAIN LiveTools(s)} : s \in Servers}

AllRows == UNION {PersistedRows(k[2]) : k \in AllKeys}

\* the stores an earlier process can have left behind
PersistedStores ==
  {d \in UNION {[K -> AllRows] : K \in SUBSET AllKeys} :
     \A k \in DOMAIN d : d[k] \in PersistedRows(k[2])}

\* a later start of the process: the store and the index directory hold
\* what an earlier process left, whatever its configuration was
InitRestart ==
  /\ InitMemory
  /\ index \in SUBSET AllKeys
  /\ indexBefore = index
  /\ db \in PersistedStores
  /\ dbBefore = db

\* a start whose rejection is logged and the process ends normally
FatalExitsClean ==
  /\ pc' = "exit"
  /\ exitCode' = "0"

\* a fatal startup failure: index.ts exits the process with code 1
Fatal ==
  /\ pc' = "exit"
  /\ exitCode' = "1"

\* the store is opened and every connection attempt is started
OpenDb ==
  /\ pc = "open"
  /\ pc' = "spawn"
  /\ conn' = [s \in Servers |-> IF s \in config THEN "pending" ELSE "none"]
  /\ UNCHANGED <<config, reg, memVars, db, dbBefore, indexBefore, live, req,
                 lastResp,
                 exitCode>>

OpenDbFails ==
  /\ pc = "open"
  /\ Fatal
  /\ UNCHANGED <<config, conn, reg, memVars, db, dbBefore, indexBefore, live, req,
                 lastResp>>

\* createConnection resolves: the handle is stored under the server's name
SpawnOk(s) ==
  /\ conn[s] = "pending"
  /\ conn' = [conn EXCEPT ![s] = "ok"]
  /\ UNCHANGED <<pc, config, reg, memVars, db, dbBefore, indexBefore, live, req,
                 lastResp,
                 exitCode>>

\* createConnection rejects: connectMcpServer swallows the error
SpawnFails(s) ==
  /\ conn[s] = "pending"
  /\ conn' = [conn EXCEPT ![s] = "failed"]
  /\ UNCHANGED <<pc, config, reg, memVars, db, dbBefore, indexBefore, live, req,
                 lastResp,
                 exitCode>>

\* start() going on without awaiting the connection attempts
SpawnNotAwaited == TRUE

\* Promise.all over the connection attempts has settled
SpawnAllDone == \A s \in config : conn[s] # "pending"

\* registerAllServers starts one registerServer per connection; each runs
\* up to its listTools call
RegisterAllStart ==
  /\ pc = "spawn"
  /\ SpawnAllDone
  /\ pc' = "register"
  /\ reg' = [s \in Servers |-> IF CanRegister(s) THEN "listing" ELSE "none"]
  /\ UNCHANGED <<config, conn, memVars, db, dbBefore, indexBefore, live, req,
                 lastResp,
                 exitCode>>

\* Map.set: a new key goes to the end, the value of a key the map holds is
\* replaced in its place
SetServer(info, entry) ==
  IF \E i \in DOMAIN info : info[i].name = entry.name
  THEN [i \in DOMAIN info |->
          IF info[i].name = entry.name THEN entry ELSE info[i]]
  ELSE Append(info, entry)

\* listTools answers and every tool is persisted: the server enters C5
RegisterServerOk(s, ls) ==
  /\ reg[s] = "listing"
  /\ live' = [live EXCEPT ![s] = ls]
  /\ LET names == LiveTools(s)
     IN  /\ serversInfo' = SetServer(serversInfo,
              [name |-> s, tools |-> RegisteredTools(db, s, names, ls)])
         /\ db' = SyncPrefix(db, s, names, ls, Len(names))
  /\ reg' = [reg EXCEPT ![s] = "done"]
  /\ UNCHANGED <<pc, config, conn, toolsParser, dbBefore, indexBefore, index,
                 files, sbServers, sbReady, cache, req, lastResp, exitCode>>

\* registerServer storing an entry before listTools has answered, so that
\* a failed call leaves it behind
RegisterServerFailsLeavesEntry(s, ls, k) ==
  /\ reg[s] = "listing"
  /\ db' = SyncPrefix(db, s, LiveTools(s), ls, k)
  /\ reg' = [reg EXCEPT ![s] = "failed"]
  /\ serversInfo' = Append(serversInfo, [name |-> s, tools |-> <<>>])
  /\ UNCHANGED <<pc, config, conn, toolsParser, dbBefore, indexBefore, live, index,
                 files, sbServers, sbReady, cache, req, lastResp, exitCode>>

\* registerAllServers without its per-server catch: one rejected
\* registerServer rejects start() and the process exits
RegisterServerFailsAborts(s, ls, k) ==
  /\ reg[s] = "listing"
  /\ db' = SyncPrefix(db, s, LiveTools(s), ls, k)
  /\ reg' = [reg EXCEPT ![s] = "failed"]
  /\ Fatal
  /\ UNCHANGED <<config, conn, memVars, dbBefore, indexBefore, live, req, lastResp>>

\* listTools rejects, or a store write fails after k tools were persisted:
\* registerServer throws and registerAllServers logs it
RegisterServerFails(s, ls, k) ==
  /\ reg[s] = "listing"
  /\ db' = SyncPrefix(db, s, LiveTools(s), ls, k)
  /\ reg' = [reg EXCEPT ![s] = "failed"]
  /\ UNCHANGED <<pc, config, conn, memVars, dbBefore, indexBefore, live, req,
                 lastResp,
                 exitCode>>

\* registerAllServers returning without awaiting its registerServer calls
RegisterNotAwaited == TRUE

\* Promise.all over the registerServer calls has settled
RegisterAllDone == \A s \in Servers : reg[s] # "listing"

\* orphan cleanup after registerAllServers has returned
Reconcile ==
  /\ pc = "register"
  /\ RegisterAllDone
  /\ db' = reconcileOrphans(db)
  /\ pc' = "rebuild"
  /\ UNCHANGED <<config, conn, reg, memVars, dbBefore, indexBefore, live, req,
                 lastResp,
                 exitCode>>

\* a rebuild that adds the tools of C5 to the index it finds
RebuildKeepsOld ==
  /\ pc = "rebuild"
  /\ index' = index \cup RegistryPairs
  /\ pc' = "materialize"
  /\ UNCHANGED <<config, conn, reg, serversInfo, toolsParser, db,
                 dbBefore, indexBefore, live, files, sbServers, sbReady, cache, req, lastResp,
                 exitCode>>

\* the vector index is rebuilt from C5
Rebuild ==
  /\ pc = "rebuild"
  /\ index' = RegistryPairs
  /\ pc' = "materialize"
  /\ UNCHANGED <<config, conn, reg, serversInfo, toolsParser, db,
                 dbBefore, indexBefore, live, files, sbServers, sbReady, cache, req, lastResp,
                 exitCode>>

RebuildFails ==
  /\ pc = "rebuild"
  /\ Fatal
  /\ UNCHANGED <<config, conn, reg, memVars, db, dbBefore, indexBefore, live, req,
                 lastResp>>

\* the tools parser is constructed and the sandbox is initialized
Materialize(written) ==
  /\ pc = "materialize"
  /\ toolsParser' = TRUE
  /\ sbServers' = RegisteredServers
  /\ cache' = clearAndSetToolOutCache(RegisteredServers)
  /\ files' = createSandboxStructure(files, Len(serversInfo), written)
  /\ sbReady' = TRUE
  /\ pc' = "bind"
  /\ UNCHANGED <<config, conn, reg, serversInfo, db, dbBefore, indexBefore, live,
                 index,
                 req, lastResp, exitCode>>

\* mcpServer.connect(transport) resolves
Bind ==
  /\ pc = "bind"
  /\ pc' = "bound"
  /\ UNCHANGED <<config, conn, reg, memVars, db, dbBefore, indexBefore, live, req,
                 lastResp,
                 exitCode>>

BindFails ==
  /\ pc = "bind"
  /\ Fatal
  /\ UNCHANGED <<config, conn, reg, memVars, db, dbBefore, indexBefore, live, req,
                 lastResp>>

LiveSchemaLists(s) ==
  {ls \in [DOMAIN LiveTools(s) -> {"none", "L1", "L2"}] :
     \A i \in DOMAIN ls : ls[i] \in LiveSchemas(LiveTools(s)[i])}

WrittenCounts ==
  {w \in [Servers -> 0 .. 2] : \A s \in Servers : w[s] <= Len(LiveTools(s))}

Startup ==
  \/ OpenDb
  \/ OpenDbFails
  \/ \E s \in Servers : SpawnOk(s)
  \/ \E s \in Servers : SpawnFails(s)
  \/ RegisterAllStart
  \/ \E s \in Servers : \E ls \in LiveSchemaLists(s) : RegisterServerOk(s, ls)
  \/ \E s \in Servers : \E ls \in LiveSchemaLists(s) :
       \E k \in 0 .. (Len(LiveTools(s)) - 1) : RegisterServerFails(s, ls, k)
  \/ Reconcile
  \/ Rebuild
  \/ RebuildFails
  \/ \E w \in WrittenCounts : Materialize(w)
  \/ Bind
  \/ BindFails

\* a start in which no step fails and every stub file is written
StartupOk ==
  \/ OpenDb
  \/ \E s \in Servers : SpawnOk(s)
  \/ RegisterAllStart
  \/ \E s \in Servers : \E ls \in LiveSchemaLists(s) : RegisterServerOk(s, ls)
  \/ Reconcile
  \/ Rebuild
  \/ Materialize([s \in Servers |-> Len(LiveTools(s))])
  \/ Bind

\* a drain that sets the title of the tool along with its schema
SetToolSchemaRetitles(info, s, n, schema) ==
  [i \in DOMAIN info |->
     IF info[i].name # s THEN info[i]
     ELSE LET tools == info[i].tools
              hits == {j \in DOMAIN tools : tools[j].name = n}
          IN  IF hits = {} THEN info[i]
              ELSE LET first == CHOOSE j \in hits : \A h \in hits : j <= h
                   IN  [info[i] EXCEPT !.tools[first].outputSchema = schema,
                                       !.tools[first].title = n]]

\* a drain that writes the row and leaves the tool of the registry alone
SetToolSchemaSkipped(info, s, n, schema) == info

(***************************************************************************)
(* C7: the schema-inference drain                                          *)
(***************************************************************************)
\* tool.outputSchema = outputSchema on the first tool of s named n
SetToolSchema(info, s, n, schema) ==
  [i \in DOMAIN info |->
     IF info[i].name # s THEN info[i]
     ELSE LET tools == info[i].tools
              hits == {j \in DOMAIN tools : tools[j].name = n}
          IN  IF hits = {} THEN info[i]
              ELSE LET first == CHOOSE j \in hits : \A h \in hits : j <= h
                   IN  [info[i] EXCEPT !.tools[first].outputSchema = schema]]

\* updateOutputSchema without the check of the row's originalOutputSchema
WritesInferredUnchecked(d, s, n) == HasRow(d, s, n)

\* whether updateOutputSchema writes the schema of a captured output: the
\* tool has a row and the row's schema did not come from the server
WritesInferred(d, s, n) ==
  HasRow(d, s, n) /\ ~d[<<s, n>>].originalOutputSchema

\* updateOutputSchema merging the inferred schema into the schema the row
\* has already, instead of replacing it
DrainEntryMerging(st, s, e) ==
  IF WritesInferred(st.db, s, e.toolName)
  THEN LET old == st.db[<<s, e.toolName>>].outputSchema
           new == IF old = "none" THEN convertOutputToSchema(e.output)
                  ELSE "merged"
       IN  [db |-> updateTool(st.db, s, e.toolName, new, FALSE),
            info |-> IF s \in sbServers
                     THEN SetToolSchema(st.info, s, e.toolName, new)
                     ELSE st.info]
  ELSE st

\* updateOutputSchema, one captured output of server s; st = [db, info]
DrainEntry(st, s, e) ==
  IF WritesInferred(st.db, s, e.toolName)
  THEN [db |-> updateTool(st.db, s, e.toolName,
                          convertOutputToSchema(e.output), FALSE),
        info |-> IF s \in sbServers
                 THEN SetToolSchema(st.info, s, e.toolName,
                                    convertOutputToSchema(e.output))
                 ELSE st.info]
  ELSE st

\* a drain without the try around one entry: the first store call that
\* throws ends the bucket
RECURSIVE DrainBucketAborting(_, _, _, _, _)
DrainBucketAborting(st, s, outputs, k, failed) ==
  IF k = 0 THEN st
  ELSE LET before == DrainBucketAborting(st, s, outputs, k - 1, failed)
       IN  IF \E j \in 1 .. k : <<s, j>> \in failed THEN before
           ELSE DrainEntry(before, s, outputs[k])

\* one bucket: the try block of an entry throws for the positions in
\* failed (a store call that rejects), the catch logs it and the loop goes on
RECURSIVE DrainBucket(_, _, _, _, _)
DrainBucket(st, s, outputs, k, failed) ==
  IF k = 0 THEN st
  ELSE LET before == DrainBucket(st, s, outputs, k - 1, failed)
       IN  IF <<s, k>> \in failed THEN before
           ELSE DrainEntry(before, s, outputs[k])

\* updateOutputSchema: every bucket of the cache in map order, every
\* captured output of a bucket in the order it was pushed
RECURSIVE DrainServers(_, _, _, _)
DrainServers(st, c, i, failed) ==
  IF i = 0 THEN st
  ELSE LET before == DrainServers(st, c, i - 1, failed)
           s == serversInfo[i].name
       IN  IF s \in DOMAIN c
           THEN DrainBucket(before, s, c[s], Len(c[s]), failed)
           ELSE before

\* updateOutputSchema when the store calls of the positions in failed throw
updateOutputSchemaFailing(c, failed) ==
  DrainServers([db |-> db, info |-> serversInfo], c, Len(serversInfo), failed)

\* updateOutputSchema when no store call throws
updateOutputSchema(c) == updateOutputSchemaFailing(c, {})

\* the positions of the cache that hold a captured output
Captured(c) == UNION {{<<s, i>> : i \in DOMAIN c[s]} : s \in DOMAIN c}

\* the (server, tool) keys of the captured outputs
CapturedKeys(c) == {<<p[1], c[p[1]][p[2]].toolName>> : p \in Captured(c)}

(***************************************************************************)
(* C8: run_functions_code                                                  *)
(***************************************************************************)
\* the stub returning the downstream response as it came
StubEnvelopeRaw(s, name, response) ==
  [content |-> response.content, isError |-> response.isError,
   meta |-> [serverName |-> s, toolName |-> name]]

\* values of a response field for which `field || default` takes the default
Falsy == {"absent", "false"}

\* what the generated stub returns to the script for a downstream response;
\* name is the tool name written into the stub
StubEnvelope(s, name, response) ==
  [content |-> IF response.content \in Falsy THEN "[]" ELSE response.content,
   isError |-> IF response.isError \in Falsy THEN "false"
               ELSE response.isError,
   meta |-> [serverName |-> s, toolName |-> name]]

Resp(tool, escaped, prefix, body, isError, ran) ==
  [tool |-> tool, escaped |-> escaped, prefix |-> prefix, body |-> body,
   isError |-> isError, ranScript |-> ran, drained |-> {},
   failed |-> {}, arg |-> <<>>, value |-> <<>>]

\* ToolCallHandler.formatError
formatError(tool, msg, ran) == Resp(tool, FALSE, "Error: ", msg, "absent", ran)

\* a request arrives only on a bound transport
Serving == pc = "bound"

\* run_functions_code whose arguments carry no string code. shape "none":
\* the request has no arguments object and reading code throws; "missing",
\* "wrong": code is undefined or not a string
RunCodeBadArgs(shape) ==
  /\ Serving
  /\ lastResp' =
       IF shape = "none"
       THEN Resp("run_functions_code", TRUE, "", "TypeError", "absent", FALSE)
       ELSE Resp("run_functions_code", FALSE, "Error: ",
                 "code must be a string", "absent", FALSE)
  /\ UNCHANGED <<pc, config, conn, reg, memVars, db, dbBefore, indexBefore, live,
                 req,
                 exitCode>>

\* run_functions_code with a string code: execute hands the script to the VM
RunCodeStart(r) ==
  /\ Serving
  /\ req[r].pc = "idle"
  /\ req' = [req EXCEPT ![r].pc = "script"]
  /\ UNCHANGED <<pc, config, conn, reg, memVars, db, dbBefore, indexBefore, live,
                 lastResp,
                 exitCode>>

\* the stub putting the newest entry first (unshift)
PushEntryFirst(bucket, e) == <<e>> \o bucket

\* serverCache.push(entry)
PushEntry(bucket, e) == Append(bucket, e)

\* a stub the script required gets its callTool response: the response is
\* pushed to the server's bucket and the envelope goes to the script.
\* returned and viaStub are no fields of the cache entry in the code:
\* returned keeps, beside the captured response, the envelope the stub
\* handed to the script for it, viaStub tells whether a stub pushed the
\* entry, and examined counts the drains that have handled the entry (it
\* is counted where the drains of two requests are followed one entry at
\* a time)
StubCallReturns(r, s, title, response) ==
  /\ req[r].pc = "script"
  /\ <<s, title>> \in DOMAIN files
  /\ s \in sbServers
  /\ Cardinality(Captured(cache)) < MaxCaptured
  /\ cache' = IF s \in DOMAIN cache
              THEN [cache EXCEPT ![s] = PushEntry(@,
                      [toolName |-> files[<<s, title>>], output |-> response,
                       returned |-> StubEnvelope(s, files[<<s, title>>],
                                                 response),
                       viaStub |-> TRUE, examined |-> 0])]
              ELSE cache
  /\ UNCHANGED <<pc, config, conn, reg, serversInfo, toolsParser, db,
                 dbBefore, indexBefore, live, index, files, sbServers, sbReady, req,
                 lastResp, exitCode>>

\* an output no downstream returned: the script made it up
ForgedOutput == [content |-> "x1", isError |-> "false"]

\* the script requires the mock module toolOutputCache itself and pushes
\* an entry to the bucket of server s under the tool name n; one such
\* entry per drain is followed
ScriptPushesCache(r, s, n) ==
  /\ req[r].pc = "script"
  /\ s \in DOMAIN cache
  /\ Cardinality(Captured(cache)) < MaxCaptured
  /\ \A p \in Captured(cache) : cache[p[1]][p[2]].viaStub
  /\ cache' = [cache EXCEPT ![s] = Append(@,
                  [toolName |-> n, output |-> ForgedOutput,
                   returned |-> StubEnvelope(s, n, ForgedOutput),
                   viaStub |-> FALSE])]
  /\ UNCHANGED <<pc, config, conn, reg, serversInfo, toolsParser, db,
                 dbBefore, indexBefore, live, index, files, sbServers, sbReady,
                 req, lastResp, exitCode>>

\* the script throws or its promise rejects: execute rethrows and
\* handleRunCode answers with formatError
ScriptFails(r) ==
  /\ req[r].pc = "script"
  /\ req' = [req EXCEPT ![r].pc = "idle"]
  /\ lastResp' = formatError("run_functions_code", "script error", TRUE)
  /\ UNCHANGED <<pc, config, conn, reg, memVars, db, dbBefore, indexBefore, live,
                 exitCode>>

\* the script's value is there: execute drains the cache, clears it and
\* returns the value, handleRunCode answers with its JSON text
ScriptReturns(r) ==
  /\ req[r].pc = "script"
  /\ LET st == updateOutputSchema(cache)
     IN  /\ db' = st.db
         /\ serversInfo' = st.info
  /\ cache' = clearAndSetToolOutCache(sbServers)
  /\ req' = [req EXCEPT ![r].pc = "idle"]
  /\ lastResp' = [Resp("run_functions_code", FALSE, "", "result", "absent",
                      TRUE) EXCEPT !.drained = CapturedKeys(cache)]
  /\ UNCHANGED <<pc, config, conn, reg, toolsParser, dbBefore, indexBefore, live, index,
                 files, sbServers, sbReady, exitCode>>


(***************************************************************************)
(* C7: a stub call followed from its start to its answer                   *)
(***************************************************************************)
\* the calls that are in flight, as (request, position) pairs
InFlight == UNION {{<<r, i>> : i \in DOMAIN req[r].calls} : r \in Reqs}

Max(S) == IF S = {} THEN 0 ELSE CHOOSE x \in S : \A y \in S : y <= x

\* received is no field of the code: the rank of the response among the
\* responses the stubs of the server received since the bucket was emptied
NextReceived(bucket) ==
  1 + Max({bucket[k].received : k \in {j \in DOMAIN bucket : bucket[j].viaStub}})

\* overtook is no field of the code: whether the response came while a
\* call the same script had issued earlier to the same server was in flight
Overtook(calls, i) == \E j \in 1 .. (i - 1) : calls[j].server = calls[i].server

\* serverInfo.client of the sandbox map: the handle registerServer stored
ClientOf(s) == IF conn[s] = "ok" THEN "client" ELSE "null"

\* s without position i
RemoveAt(s, i) == [j \in 1 .. (Len(s) - 1) |-> IF j < i THEN s[j] ELSE s[j + 1]]

\* the stub body up to its await: it throws when the server is not in the
\* sandbox map or has no client, else it issues client.callTool
StubCallStart(r, s, title) ==
  /\ req[r].pc = "script"
  /\ <<s, title>> \in DOMAIN files
  /\ Cardinality(Captured(cache)) + Cardinality(InFlight) < MaxCaptured
  /\ req' = IF s \notin sbServers \/ ClientOf(s) = "null"
            THEN [req EXCEPT ![r].last = "threw"]
            ELSE [req EXCEPT ![r].calls = Append(@,
                    [server |-> s, toolName |-> files[<<s, title>>]])]
  /\ UNCHANGED <<pc, config, conn, reg, memVars, db, dbBefore, indexBefore, live,
                 lastResp, exitCode>>

\* the cache entry of the response to call i of request r
StubEntry(r, i, response) ==
  LET call == req[r].calls[i]
  IN  [toolName |-> call.toolName, output |-> response,
       returned |-> StubEnvelope(call.server, call.toolName, response),
       viaStub |-> TRUE, overtook |-> Overtook(req[r].calls, i),
       received |-> NextReceived(cache[call.server])]

\* a stub that records the failure in the cache before it throws
StubCallRejectsCaptured(r, i) ==
  /\ i \in DOMAIN req[r].calls
  /\ cache' = [cache EXCEPT ![req[r].calls[i].server] =
                  PushEntry(@, StubEntry(r, i, ForgedOutput))]
  /\ req' = [req EXCEPT ![r].calls = RemoveAt(@, i), ![r].last = "threw"]
  /\ UNCHANGED <<pc, config, conn, reg, serversInfo, toolsParser, db,
                 dbBefore, indexBefore, live, index, files, sbServers, sbReady,
                 lastResp, exitCode>>

\* client.callTool rejects: the await throws out of the stub
StubCallRejects(r, i) ==
  /\ i \in DOMAIN req[r].calls
  /\ req' = [req EXCEPT ![r].calls = RemoveAt(@, i), ![r].last = "threw"]
  /\ UNCHANGED <<pc, config, conn, reg, memVars, db, dbBefore, indexBefore, live,
                 lastResp, exitCode>>

\* client.callTool resolves: the stub pushes the response to the bucket of
\* its server and returns the envelope
StubCallResolves(r, i, response) ==
  /\ i \in DOMAIN req[r].calls
  /\ cache' = IF req[r].calls[i].server \in DOMAIN cache
              THEN [cache EXCEPT ![req[r].calls[i].server] =
                      PushEntry(@, StubEntry(r, i, response))]
              ELSE cache
  /\ req' = [req EXCEPT ![r].calls = RemoveAt(@, i), ![r].last = "none"]
  /\ UNCHANGED <<pc, config, conn, reg, serversInfo, toolsParser, db,
                 dbBefore, indexBefore, live, index, files, sbServers, sbReady,
                 lastResp, exitCode>>

\* the script's value is there and store calls of the drain throw for the
\* captured outputs at the positions in failed
ScriptReturnsDrainFailing(r, failed) ==
  /\ req[r].pc = "script"
  /\ failed # {}
  /\ failed \subseteq Captured(cache)
  /\ LET st == updateOutputSchemaFailing(cache, failed)
     IN  /\ db' = st.db
         /\ serversInfo' = st.info
  /\ cache' = clearAndSetToolOutCache(sbServers)
  /\ req' = [req EXCEPT ![r].pc = "idle"]
  /\ lastResp' = [Resp("run_functions_code", FALSE, "", "result", "absent",
                      TRUE) EXCEPT !.drained = CapturedKeys(cache),
                                   !.failed = failed]
  /\ UNCHANGED <<pc, config, conn, reg, toolsParser, dbBefore, indexBefore, live, index,
                 files, sbServers, sbReady, exitCode>>

(***************************************************************************)
(* C7: the drains of two requests followed one captured output at a time   *)
(***************************************************************************)
\* updateOutputSchema awaits the store for every captured output, and the
\* drain of a script that has returned in the same turn runs in between.
\* The place of a drain: si, k the bucket and the position of the output
\* it is handling (si = 0 when the loops are through), stale whether
\* another drain has cleared the cache since, rest what is left of the
\* array the loop stands in when that happened, seen the keys handled
ServerAt(i) == serversInfo[i].name

Draining(r) == req[r].pc = "drain"

\* the positions of the cache after bucket si, position k, in loop order
Ahead(si, k) ==
  {q \in (DOMAIN serversInfo) \X (1 .. MaxCaptured) :
     /\ ServerAt(q[1]) \in DOMAIN cache
     /\ q[2] \in DOMAIN cache[ServerAt(q[1])]
     /\ q[1] > si \/ (q[1] = si /\ q[2] > k)}

FirstOf(S) ==
  CHOOSE q \in S : \A x \in S : q[1] < x[1] \/ (q[1] = x[1] /\ q[2] <= x[2])

\* the place after (si, k)
Advance(si, k) ==
  IF Ahead(si, k) = {} THEN [si |-> 0, k |-> 0]
  ELSE [si |-> FirstOf(Ahead(si, k))[1], k |-> FirstOf(Ahead(si, k))[2]]

\* execute has the script's value and calls updateOutputSchema, which runs
\* to its first await
DrainBegin(r) ==
  /\ req[r].pc = "script"
  /\ req' = [req EXCEPT ![r].pc = "drain",
                        ![r].drain = <<[si |-> Advance(0, 0).si,
                                        k |-> Advance(0, 0).k,
                                        stale |-> FALSE, rest |-> <<>>,
                                        seen |-> {}]>>]
  /\ UNCHANGED <<pc, config, conn, reg, memVars, db, dbBefore, indexBefore, live,
                 lastResp, exitCode>>

\* the store has answered: the output the drain stands at is handled and
\* the loop goes to the next one
DrainStep(r) ==
  /\ Draining(r)
  /\ LET c == req[r].drain[1]
         s == ServerAt(c.si)
     IN  /\ c.si # 0
         /\ IF c.stale
            THEN /\ LET st == DrainEntry([db |-> db, info |-> serversInfo], s,
                                        Head(c.rest))
                    IN  db' = st.db /\ serversInfo' = st.info
                 /\ cache' = cache
                 /\ req' = [req EXCEPT ![r].drain =
                      <<[c EXCEPT !.rest = Tail(c.rest),
                                  !.si = IF Len(c.rest) = 1 THEN 0 ELSE c.si,
                                  !.seen = @ \cup {<<s, Head(c.rest).toolName>>}]>>]
            ELSE /\ LET st == DrainEntry([db |-> db, info |-> serversInfo], s,
                                        cache[s][c.k])
                    IN  db' = st.db /\ serversInfo' = st.info
                 /\ cache' = [cache EXCEPT ![s][c.k].examined =
                                IF @ < 2 THEN @ + 1 ELSE 2]
                 /\ req' = [req EXCEPT ![r].drain =
                      <<[c EXCEPT !.si = Advance(c.si, c.k).si,
                                  !.k = Advance(c.si, c.k).k,
                                  !.seen = @ \cup {<<s, cache[s][c.k].toolName>>}]>>]
  /\ UNCHANGED <<pc, config, conn, reg, toolsParser, dbBefore, indexBefore, live, index,
                 files, sbServers, sbReady, lastResp, exitCode>>

\* the loops are through: execute clears the cache and returns the value.
\* A drain of another request keeps the array it stands in
DrainEnd(r) ==
  /\ Draining(r)
  /\ req[r].drain[1].si = 0
  /\ cache' = clearAndSetToolOutCache(sbServers)
  /\ req' = [q \in Reqs |->
       IF q = r THEN [req[q] EXCEPT !.pc = "idle", !.drain = <<>>]
       ELSE IF Draining(q) /\ ~req[q].drain[1].stale /\ req[q].drain[1].si # 0
       THEN LET c == req[q].drain[1]
                bucket == cache[ServerAt(c.si)]
            IN  [req[q] EXCEPT !.drain =
                   <<[c EXCEPT !.stale = TRUE,
                               !.rest = SubSeq(bucket, c.k, Len(bucket))]>>]
       ELSE req[q]]
  /\ lastResp' = [Resp("run_functions_code", FALSE, "", "result", "absent",
                      TRUE) EXCEPT !.drained = req[r].drain[1].seen]
  /\ UNCHANGED <<pc, config, conn, reg, serversInfo, toolsParser, db,
                 dbBefore, indexBefore, live, index, files, sbServers, sbReady,
                 exitCode>>

\* a downstream answer reaches its stub in a later turn of the event loop
\* than the steps of a drain
StubCallReturnsBetweenDrains(r, s, title, response) ==
  /\ \A q \in Reqs : ~Draining(q)
  /\ StubCallReturns(r, s, title, response)

(***************************************************************************)
(* C6: the overview formatter                                              *)
(***************************************************************************)
\* the characters of the modelled texts in the order of their UTF-16 code
\* units, which is the order Array.prototype.sort compares strings by
CharOrder ==
  <<" ", "#", "/", "1", "2", ":", "A", "B", "X", "_", "a", "b", "c", "e",
    "f", "g", "i", "m", "n", "o", "p", "r", "s", "t", "u", "v", "z">>

CodeUnit(c) == CHOOSE i \in DOMAIN CharOrder : CharOrder[i] = c

\* x < y as JavaScript compares two strings
RECURSIVE LineLess(_, _)
LineLess(x, y) ==
  IF y = <<>> THEN FALSE
  ELSE IF x = <<>> THEN TRUE
  ELSE IF Head(x) = Head(y) THEN LineLess(Tail(x), Tail(y))
  ELSE CodeUnit(Head(x)) < CodeUnit(Head(y))

RECURSIVE InsertLine(_, _)
InsertLine(x, sorted) ==
  IF sorted = <<>> THEN <<x>>
  ELSE IF LineLess(x, Head(sorted)) THEN <<x>> \o sorted
  ELSE <<Head(sorted)>> \o InsertLine(x, Tail(sorted))

\* getServersOverview without its sort: the lines as they were pushed
KeepOrder(lines) == lines

\* lines.sort()
RECURSIVE SortLines(_)
SortLines(lines) ==
  IF lines = <<>> THEN <<>>
  ELSE InsertLine(Head(lines), SortLines(Tail(lines)))

HeaderText ==
  <<" ", "m", "c", "p", " ", "s", "e", "r", "v", "e", "r", " ", "n", "s",
    "t", "r", "u", "c", "t", "i", "o", "n", "s", ":", " ">>

\* the header line getServersOverview pushes for a server with instructions
HeaderLine(s) == <<"#", " ">> \o s \o HeaderText \o Instructions(s)

\* the path line of a tool
ToolLine(s, title) == s \o <<"/">> \o title

\* the lines one server contributes, in the order they are pushed
ServerLines(entry) ==
  (IF Instructions(entry.name) # <<>> THEN <<HeaderLine(entry.name)>>
   ELSE <<>>)
    \o [j \in DOMAIN entry.tools |-> ToolLine(entry.name, entry.tools[j].title)]

RECURSIVE PushedLines(_, _)
PushedLines(info, i) ==
  IF i = 0 THEN <<>>
  ELSE PushedLines(info, i - 1) \o ServerLines(info[i])

\* MCPToolsParser.getServersOverview: the document as its sequence of
\* lines (the text is the lines joined by newlines)
getServersOverview(info) == SortLines(PushedLines(info, Len(info)))

\* toolPath.split("/")
RECURSIVE Split(_)
Split(path) ==
  IF path = <<>> THEN << <<>> >>
  ELSE IF Head(path) = "/" THEN << <<>> >> \o Split(Tail(path))
  ELSE LET rest == Split(Tail(path))
       IN  << <<Head(path)>> \o Head(rest) >> \o Tail(rest)

\* getToolsOverview without its check of the number of parts
AnyPartsAccepted(parts) == FALSE

\* parts.length !== 2
MalformedPath(parts) == Len(parts) # 2

\* const [serverName, toolName] = parts: a missing part is undefined
Part(parts, i) == IF i \in DOMAIN parts THEN parts[i] ELSE <<"undefined">>

\* getToolsOverview throwing for a tool the server does not have
ToolNotFoundThrows(prev, title) ==
  [ok |-> FALSE, tools |-> <<>>, msg |-> "Error: Tool not found",
   about |-> title]

\* no tool of the server has the title: the miss is logged and the loop
\* goes on with what it has collected
ToolNotFound(prev, title) == prev

\* MCPToolsParser.getToolsOverview after the first k paths: the tools
\* collected, or the error thrown
RECURSIVE ToolsLoop(_, _, _)
ToolsLoop(info, paths, k) ==
  IF k = 0 THEN [ok |-> TRUE, tools |-> <<>>, msg |-> "", about |-> <<>>]
  ELSE
    LET prev == ToolsLoop(info, paths, k - 1)
        parts == Split(paths[k])
    IN  IF ~prev.ok THEN prev
        ELSE IF MalformedPath(parts)
        THEN [ok |-> FALSE, tools |-> <<>>,
              msg |-> "Error: Invalid tool path format", about |-> paths[k]]
        ELSE
          LET srv == {i \in DOMAIN info : info[i].name = Part(parts, 1)}
          IN  IF srv = {}
              THEN [ok |-> FALSE, tools |-> <<>>,
                    msg |-> "Error: Server not found", about |-> Part(parts, 1)]
              ELSE
                LET tools == info[CHOOSE i \in srv : TRUE].tools
                    hits == {j \in DOMAIN tools : tools[j].title = Part(parts, 2)}
                IN  IF hits = {} THEN ToolNotFound(prev, Part(parts, 2))
                    ELSE LET first == CHOOSE j \in hits :
                                        \A h \in hits : j <= h
                         IN  [prev EXCEPT !.tools = Append(@,
                                [tool |-> tools[first],
                                 exampleUsage |-> <<Part(parts, 1), tools[first].title>>])]

getToolsOverview(info, paths) == ToolsLoop(info, paths, Len(paths))

\* the tool paths a client may send: the two paths of the overview, a
\* path of one part, a path of three parts (a name instead of its title)
\* and a path of a tool no server has
PathPool ==
  { ToolLine(SA, convertToolName(N2)), ToolLine(SB, convertToolName(N1)),
    SA, ToolLine(SA, N2), ToolLine(SA, <<"z">>) }

PathLists == {<<x>> : x \in PathPool} \cup {<<x, y>> : x, y \in PathPool}

\* get_mcps_servers_overview
GetServersOverview ==
  /\ Serving
  /\ toolsParser
  /\ lastResp' = [Resp("get_mcps_servers_overview", FALSE, "", "overview",
                       "absent", FALSE)
                    EXCEPT !.value = getServersOverview(serversInfo)]
  /\ UNCHANGED <<pc, config, conn, reg, memVars, db, dbBefore, indexBefore, live, req,
                 exitCode>>

\* a get_tools_overview handler that resets the sandbox's cache of captured
\* outputs before it answers
GetToolsOverviewResetsCache(paths) ==
  /\ Serving
  /\ toolsParser
  /\ LET res == getToolsOverview(serversInfo, paths)
     IN  lastResp' =
           IF res.ok
           THEN [Resp("get_tools_overview", FALSE, "", "tools", "absent",
                      FALSE) EXCEPT !.arg = paths, !.value = res.tools]
           ELSE [formatError("get_tools_overview", res.msg, FALSE)
                   EXCEPT !.arg = paths, !.value = <<res.about>>]
  /\ cache' = clearAndSetToolOutCache(sbServers)
  /\ UNCHANGED <<pc, config, conn, reg, serversInfo, toolsParser, index,
                 files, sbServers, sbReady, db, dbBefore, indexBefore, live,
                 req, exitCode>>

\* get_tools_overview with an array of paths: the JSON array of the tools,
\* or formatError of what getToolsOverview threw
GetToolsOverview(paths) ==
  /\ Serving
  /\ toolsParser
  /\ LET res == getToolsOverview(serversInfo, paths)
     IN  lastResp' =
           IF res.ok
           THEN [Resp("get_tools_overview", FALSE, "", "tools", "absent",
                      FALSE) EXCEPT !.arg = paths, !.value = res.tools]
           ELSE [formatError("get_tools_overview", res.msg, FALSE)
                   EXCEPT !.arg = paths, !.value = <<res.about>>]
  /\ UNCHANGED <<pc, config, conn, reg, memVars, db, dbBefore, indexBefore, live, req,
                 exitCode>>

(***************************************************************************)
(* C4 and semantic_search_tools                                            *)
(***************************************************************************)
Queries == {"q1", "q2"}

\* the similarity of a query and an indexed tool description: every tool
\* scores the same for q1, and the tool of B scores highest for q2
Score(q, id) == IF q = "q2" /\ id[1] = SB THEN 2 ELSE 1

\* serverName/toolName of an indexed id
IdPath(id) == id[1] \o <<"/">> \o id[2]

\* id x comes before id y in the results for q
Before(q, x, y) ==
  \/ Score(q, x) > Score(q, y)
  \/ Score(q, x) = Score(q, y) /\ LineLess(IdPath(x), IdPath(y))

\* C4.search: the k best ids of the index, best first
RECURSIVE search(_, _, _)
search(idx, q, k) ==
  IF k <= 0 \/ idx = {} THEN <<>>
  ELSE LET best == CHOOSE x \in idx : \A y \in idx \ {x} : Before(q, x, y)
       IN  <<[serverName |-> best[1], toolName |-> best[2],
              score |-> Score(q, best)]>> \o search(idx \ {best}, q, k - 1)

\* the limit the handler uses when the request gives none
DefaultLimit == 5

\* a handler that takes the default for every falsy limit (limit || 5)
EffectiveLimitFalsy(l) == IF l.given /\ l.n # 0 THEN l.n ELSE DefaultLimit

\* const { query, limit = 5 } = args
EffectiveLimit(l) == IF l.given THEN l.n ELSE DefaultLimit

Limits == {[given |-> FALSE, n |-> 0]} \cup {[given |-> TRUE, n |-> k] : k \in 0 .. 2}

\* semantic_search_tools with a string query
SemanticSearch(q, l) ==
  /\ Serving
  /\ LET results == search(index, q, EffectiveLimit(l))
     IN  lastResp' =
           [Resp("semantic_search_tools", FALSE, "", "results", "absent", FALSE)
              EXCEPT !.arg = <<[query |-> q, limit |-> l]>>,
                     !.value = [i \in DOMAIN results |->
                                  [serverName |-> results[i].serverName,
                                   toolName |-> results[i].toolName,
                                   similarityScore |-> results[i].score,
                                   fullPath |-> results[i].serverName \o <<"/">>
                                                  \o results[i].toolName]]]
  /\ UNCHANGED <<pc, config, conn, reg, memVars, db, dbBefore, indexBefore, live, req,
                 exitCode>>

Discovery ==
  \/ GetServersOverview
  \/ \E paths \in PathLists : GetToolsOverview(paths)
  \/ \E q \in Queries : \E l \in Limits : SemanticSearch(q, l)

Titles == {convertToolName(n) : n \in {N1, N2, N3}}

\* the tool names the dispatcher routes
MetaTools == {"get_mcps_servers_overview", "get_tools_overview",
              "semantic_search_tools", "run_functions_code"}

\* a name a client may send that is none of them
UnknownNames == {"list_tools"}

\* a dispatcher that throws for a name it does not route
UnknownToolThrows(name) ==
  /\ Serving
  /\ lastResp' = [Resp(name, TRUE, "", "Error", "absent", FALSE)
                    EXCEPT !.value = <<name>>]
  /\ UNCHANGED <<pc, config, conn, reg, memVars, db, dbBefore, indexBefore, live,
                 req, exitCode>>

\* the end of the CallTool handler: the name matched none of the routes
\* and the answer is the text Tool '<name>' not found, value is <name>
UnknownTool(name) ==
  /\ Serving
  /\ lastResp' = [Resp(name, FALSE, "Tool '", "' not found", "absent", FALSE)
                    EXCEPT !.value = <<name>>]
  /\ UNCHANGED <<pc, config, conn, reg, memVars, db, dbBefore, indexBefore, live,
                 req, exitCode>>

Runtime ==
  \/ \E name \in UnknownNames : UnknownTool(name)
  \/ \E shape \in {"none", "missing", "wrong"} : RunCodeBadArgs(shape)
  \/ \E r \in Reqs : RunCodeStart(r)
  \/ \E r \in Reqs : \E s \in Servers : \E title \in Titles :
       \E response \in Responses : StubCallReturns(r, s, title, response)
  \/ \E r \in Reqs : ScriptPushesCache(r, SA, LiveTools(SA)[1])
  \/ \E r \in Reqs : ScriptFails(r)
  \/ \E r \in Reqs : ScriptReturns(r)

Next == Startup \/ Runtime

Spec == Init /\ [][Next]_vars

\* startup followed by the discovery calls of a client
SpecDiscovery == Init /\ [][Startup \/ Discovery]_vars

\* a start with every server configured
InitAllConfigured == Init /\ config = Servers

\* downstream responses that are no errors: what a bucket holds and in
\* which order does not depend on what the responses say
PlainResponses == {x \in Responses : x.isError = "absent"}

\* the calls of the stubs followed one by one
StubRuntime ==
  \/ \E r \in Reqs : RunCodeStart(r)
  \/ \E r \in Reqs : \E s \in Servers : \E title \in Titles :
       StubCallStart(r, s, title)
  \/ \E r \in Reqs : \E i \in 1 .. MaxCaptured :
       \E response \in PlainResponses : StubCallResolves(r, i, response)
  \/ \E r \in Reqs : \E i \in 1 .. MaxCaptured : StubCallRejects(r, i)
  \/ \E r \in Reqs : ScriptFails(r)
  \/ \E r \in Reqs : ScriptReturns(r)

\* startup followed by run_functions_code calls whose stub calls are
\* followed from their start to their answer
SpecStub == InitAllConfigured /\ [][StartupOk \/ StubRuntime]_vars

\* the drains of scripts whose captured outputs the store may fail on
DrainRuntime ==
  \/ \E r \in Reqs : RunCodeStart(r)
  \/ \E r \in Reqs : \E s \in Servers : \E title \in Titles :
       \E response \in PlainResponses : StubCallReturns(r, s, title, response)
  \/ \E r \in Reqs : \E s \in Servers : ScriptPushesCache(r, s, N1)
  \/ \E r \in Reqs : ScriptReturns(r)
  \/ \E r \in Reqs : \E s \in Servers : \E i \in 1 .. MaxCaptured :
       ScriptReturnsDrainFailing(r, {<<s, i>>})

\* scripts whose drains are followed one captured output at a time
OverlapRuntime ==
  \/ \E r \in Reqs : RunCodeStart(r)
  \/ \E r \in Reqs : \E s \in Servers : \E title \in Titles :
       \E response \in Responses :
         StubCallReturnsBetweenDrains(r, s, title, response)
  \/ \E r \in Reqs : DrainBegin(r)
  \/ \E r \in Reqs : DrainStep(r)
  \/ \E r \in Reqs : DrainEnd(r)

\* startup followed by run_functions_code calls whose drains overlap
SpecOverlap == InitAllConfigured /\ [][StartupOk \/ OverlapRuntime]_vars

\* the discovery calls of a client that has scripts running: one path that
\* resolves and one that does not, one query
DiscoveryPaths == { <<ToolLine(SA, convertToolName(N2))>>, <<SA>> }

DiscoveryWhileScriptsRun ==
  \/ \E r \in Reqs : RunCodeStart(r)
  \/ \E r \in Reqs : \E s \in Servers : \E title \in Titles :
       \E response \in Responses : StubCallReturns(r, s, title, response)
  \/ \E r \in Reqs : ScriptReturns(r)
  \/ GetServersOverview
  \/ \E paths \in DiscoveryPaths : GetToolsOverview(paths)
  \/ SemanticSearch("q1", [given |-> FALSE, n |-> 0])

\* startup followed by discovery calls between the steps of scripts
SpecDiscoveryLive ==
  InitAllConfigured /\ [][StartupOk \/ DiscoveryWhileScriptsRun]_vars

\* startup followed by run_functions_code calls with failing drains
SpecDrain == InitAllConfigured /\ [][StartupOk \/ DrainRuntime]_vars

\* the startup of a process that finds the store of an earlier process
SpecRestart == InitRestart /\ [][Startup]_vars

(***************************************************************************)
(* The title conversion applied to any name                                *)
(***************************************************************************)
NameChars == {"a", "1", "/", "_", " "}

\* the tool names a server may list: every text up to MaxNameLen
Names == UNION {[1 .. n -> NameChars] : n \in 0 .. MaxNameLen}

\* the title of a listed name is computed
ConvertName(x) ==
  /\ pc = "open"
  /\ lastResp' = [Resp("convertToolName", FALSE, "", "title", "absent", FALSE)
                    EXCEPT !.arg = x, !.value = <<convertToolName(x)>>]
  /\ UNCHANGED <<pc, config, conn, reg, memVars, db, dbBefore, indexBefore, live, req,
                 exitCode>>

\* the title is fed to the conversion again
ConvertTitle ==
  /\ pc = "open"
  /\ lastResp.tool = "convertToolName"
  /\ Len(lastResp.value) = 1
  /\ lastResp' = [lastResp EXCEPT
                    !.value = Append(@, convertToolName(lastResp.value[1]))]
  /\ UNCHANGED <<pc, config, conn, reg, memVars, db, dbBefore, indexBefore, live, req,
                 exitCode>>

SpecSanitize ==
  Init /\ [][(\E x \in Names : ConvertName(x)) \/ ConvertTitle]_vars

(***************************************************************************)
(* C5 as an object: registerServer called for any name at any time         *)
(***************************************************************************)
\* the registry right after the connection attempts have settled, whatever
\* their outcomes
InitRegistry ==
  /\ pc = "register"
  /\ config = Servers
  /\ conn \in [Servers -> {"ok", "failed"}]
  /\ reg = [s \in Servers |-> "none"]
  /\ serversInfo = <<>>
  /\ toolsParser = FALSE
  /\ db = EmptyDb
  /\ dbBefore = EmptyDb
  /\ live = [s \in Servers |-> <<>>]
  /\ index = {}
  /\ indexBefore = {}
  /\ files = EmptyFiles
  /\ sbServers = {}
  /\ sbReady = FALSE
  /\ cache = [s \in {} |-> <<>>]
  /\ req = [r \in Reqs |-> IdleReq]
  /\ lastResp = NoResp
  /\ exitCode = "running"

\* registerServer(s) up to its await: it throws when s is registered
\* already or has no connection, else it asks the server for its tools
RegisterServerCall(s) ==
  /\ pc = "register"
  /\ reg[s] \notin {"listing", "listing2"}
  /\ reg' = [reg EXCEPT ![s] = IF CanRegister(s) THEN "listing"
                                ELSE "rejected"]
  /\ UNCHANGED <<pc, config, conn, memVars, db, dbBefore, indexBefore, live, req,
                 lastResp, exitCode>>

RegistryCalls ==
  \/ \E s \in Servers : RegisterServerCall(s)
  \/ \E s \in Servers : \E ls \in LiveSchemaLists(s) : RegisterServerOk(s, ls)
  \/ \E s \in Servers : \E ls \in LiveSchemaLists(s) :
       \E k \in 0 .. (Len(LiveTools(s)) - 1) : RegisterServerFails(s, ls, k)

SpecRegistry == InitRegistry /\ [][RegistryCalls]_vars

\* registerServer(s) called while another call for s waits for listTools:
\* s is not in the map yet, so this call asks the server too
\* (reg[s] = "listing2": two calls for s are waiting)
RegisterServerCallOverlapping(s) ==
  /\ pc = "register"
  /\ reg[s] = "listing"
  /\ CanRegister(s)
  /\ reg' = [reg EXCEPT ![s] = "listing2"]
  /\ UNCHANGED <<pc, config, conn, memVars, db, dbBefore, indexBefore, live, req,
                 lastResp, exitCode>>

\* listTools answers the first of two waiting calls, which stores its entry
RegisterServerOkFirst(s, ls) ==
  /\ reg[s] = "listing2"
  /\ live' = [live EXCEPT ![s] = ls]
  /\ LET names == LiveTools(s)
     IN  /\ serversInfo' = SetServer(serversInfo,
              [name |-> s, tools |-> RegisteredTools(db, s, names, ls)])
         /\ db' = SyncPrefix(db, s, names, ls, Len(names))
  /\ reg' = [reg EXCEPT ![s] = "listing"]
  /\ UNCHANGED <<pc, config, conn, toolsParser, dbBefore, indexBefore, index,
                 files, sbServers, sbReady, cache, req, lastResp, exitCode>>

RegistryCallsOverlapping ==
  \/ RegistryCalls
  \/ \E s \in Servers : RegisterServerCallOverlapping(s)
  \/ \E s \in Servers : \E ls \in LiveSchemaLists(s) :
       RegisterServerOkFirst(s, ls)

\* C5 as an object whose registerServer calls may overlap
SpecRegistryOverlap == InitRegistry /\ [][RegistryCallsOverlapping]_vars

(***************************************************************************)
(* Properties                                                              *)
(***************************************************************************)
Started == pc \in {"rebuild", "materialize", "bind", "bound"}

\* the outputSchema the server advertised for the tool of key k at this
\* start ("none" when the server was not listed or gave no schema)
LiveOf(k) ==
  LET hits == {i \in DOMAIN live[k[1]] : LiveTools(k[1])[i] = k[2]}
  IN  IF hits = {} THEN "none" ELSE live[k[1]][CHOOSE i \in hits : TRUE]

\* C1: while the process serves requests, a row of C2 whose
\* originalOutputSchema is true is changed by no step: its outputSchema
\* and its flag are the same after every run_functions_code call and drain.
OriginalRowsKept ==
  [][pc = "bound" =>
       \A k \in DOMAIN db :
         db[k].originalOutputSchema => (k \in DOMAIN db' /\ db'[k] = db[k])]_vars

\* C1 witness: a drain went through a captured output of a tool whose row
\* is original.
OriginalToolDrained ==
  \E k \in lastResp.drained : k \in DOMAIN db /\ db[k].originalOutputSchema

\* C2 (as claimed): when a script fails, the store is afterwards what the
\* drain of the captured outputs makes it.
DrainRunsOnFailure ==
  [][\A r \in Reqs :
       (req[r].pc = "script" /\ req'[r].pc = "idle"
          /\ lastResp'.body = "script error")
         => db' = updateOutputSchema(cache).db]_vars

\* C3 (as claimed): when a script starts and no other call is in flight,
\* the cache holds one bucket per server of serversInfo, each empty.
CacheCleanAtScriptStart ==
  [][((\A r \in Reqs : req[r].pc = "idle")
        /\ (\E r \in Reqs : req'[r].pc = "script"))
       => (DOMAIN cache = sbServers
             /\ \A s \in DOMAIN cache : cache[s] = <<>>)]_vars

\* C4 (as claimed): a failed meta-tool call is answered with the text
\* "Error: <msg>" and isError = true.
FailureIsErrorEnvelope ==
  lastResp.body = "script error" =>
    /\ ~lastResp.escaped
    /\ lastResp.prefix = "Error: "
    /\ lastResp.isError = "true"

\* C5 (as claimed): whatever the shape of the arguments, the handler
\* answers with a response and no exception leaves it; a call whose code
\* is no string runs no script.
BadArgumentsAnswered ==
  /\ ~lastResp.escaped
  /\ lastResp.body = "code must be a string" => ~lastResp.ranScript

\* C6: registerAll starts only when every spawn attempt has finished, the
\* sandbox is materialized only when every registerServer call has
\* finished, the transport is bound only when the parser and the sandbox
\* exist, and a request is handled only on a bound transport.
StartupBarriers ==
  /\ (\E s \in Servers : reg[s] # "none") =>
       \A s \in config : conn[s] \in {"ok", "failed"}
  /\ sbReady => \A s \in Servers : reg[s] # "listing"
  /\ pc = "bound" => (sbReady /\ toolsParser)
  /\ (lastResp.tool # "none" \/ \E r \in Reqs : req[r].pc # "idle") =>
       /\ pc = "bound"
       /\ sbReady
       /\ toolsParser
       /\ \A s \in config : conn[s] \in {"ok", "failed"}
       /\ \A s \in Servers : reg[s] # "listing"

\* C6 witness: a request has been answered by a process that registered
\* two servers.
RequestAnsweredAfterStartup ==
  lastResp.tool # "none" /\ Len(serversInfo) = 2

\* C7 (as claimed): once the transport is bound, every tool of C5 has its
\* stub file, and the stub calls that tool.
StubForEveryTool ==
  pc = "bound" =>
    \A i \in DOMAIN serversInfo : \A j \in DOMAIN serversInfo[i].tools :
      LET key == <<serversInfo[i].name, serversInfo[i].tools[j].title>>
      IN  key \in DOMAIN files /\ files[key] = serversInfo[i].tools[j].name

\* C8 (as claimed): after startup every server whose spawn and listTools
\* succeeded is in C5, every other configured server is neither in C1's
\* mapping nor in C5.
FailedServerLeavesNoEntry ==
  pc = "bound" =>
    \A s \in config :
      IF conn[s] = "ok" /\ reg[s] = "done"
      THEN hasServer(s)
      ELSE s \notin Connections /\ ~hasServer(s)

\* C8 (amended): a failure of one server never ends the startup; after
\* registerAll a server is in C5 exactly when its spawn and its registration
\* succeeded, a server whose spawn failed is in neither C1's mapping nor C5,
\* and a server whose listTools or register failed is not in C5 but keeps
\* its handle in C1's mapping.
ServerFailureIsolated ==
  /\ [](Started =>
          \A s \in config :
            /\ conn[s] \in {"ok", "failed"}
            /\ conn[s] = "ok" => reg[s] \in {"done", "failed"}
            /\ hasServer(s) <=> (conn[s] = "ok" /\ reg[s] = "done")
            /\ conn[s] = "failed" => (s \notin Connections /\ ~hasServer(s))
            /\ reg[s] = "failed" => (s \in Connections /\ ~hasServer(s)))
  /\ [][pc' = "exit" => pc \in {"open", "rebuild", "bind"}]_vars

\* C8 witness: the transport is bound, one server failed to register and
\* another one is in C5.
BoundDespiteFailure ==
  /\ pc = "bound"
  /\ \E s \in config : reg[s] = "failed" \/ conn[s] = "failed"
  /\ RegisteredServers # {}

\* C9: once reconciliation has run, every server that has a row in C2 is
\* registered in C5.
NoOrphanRows == Started => listAllServers(db) \subseteq RegisteredServers

\* C9 witness: the store of the earlier process held rows of a server that
\* is not registered now, and startup has completed with rows left.
OrphansCleaned ==
  /\ pc = "bound"
  /\ listAllServers(dbBefore) \ RegisteredServers # {}
  /\ db # EmptyDb

OneRequestAtATime ==
  Cardinality({r \in Reqs : req[r].pc # "idle"}) <= 1

\* the stub calls that have been answered and not drained yet: the entry
\* of the cache with the server of its bucket
AnsweredCalls ==
  {[server |-> p[1], entry |-> cache[p[1]][p[2]]] :
     p \in {q \in Captured(cache) : cache[q[1]][q[2]].viaStub}}

\* C15: the envelope a stub returns for a downstream response has the
\* response's content, or [] when the response has none, the response's
\* isError, or false when it has none, the stub's server as
\* _meta.serverName and the downstream name of a tool of that server as
\* _meta.toolName.
StubReturnsEnvelope ==
  \A c \in AnsweredCalls :
    LET raw == c.entry.output
        env == c.entry.returned
    IN  /\ env.content = (IF raw.content = "absent" THEN "[]" ELSE raw.content)
        /\ env.isError = (IF raw.isError = "absent" THEN "false"
                          ELSE raw.isError)
        /\ env.meta.serverName = c.server
        /\ <<c.server, env.meta.toolName>> \in RegistryPairs

\* C15 witness: a stub has answered a response that has no isError field,
\* and the envelope says isError false.
EnvelopeDefaultsIsError ==
  \E c \in AnsweredCalls :
    /\ c.entry.output.isError = "absent"
    /\ c.entry.returned.isError = "false"

\* C16 (as claimed): for every tool of C5 whose stub file exists, the stub
\* stored under the tool's title calls the server with the tool's name;
\* and the cache entry a stub pushed and the _meta.toolName it returned
\* carry the name of a tool of C5.
StubCallsDownstreamName ==
  /\ pc = "bound" =>
       \A i \in DOMAIN serversInfo : \A j \in DOMAIN serversInfo[i].tools :
         LET key == <<serversInfo[i].name, serversInfo[i].tools[j].title>>
         IN  key \in DOMAIN files => files[key] = serversInfo[i].tools[j].name
  /\ \A c \in AnsweredCalls :
       /\ c.entry.returned.meta.toolName = c.entry.toolName
       /\ <<c.server, c.entry.toolName>> \in RegistryPairs

\* the orders in which the entries of a registry can have been inserted
Orders(info) ==
  {q \in [DOMAIN info -> {info[i] : i \in DOMAIN info}] :
     \A i \in DOMAIN info : \E j \in DOMAIN q : q[j] = info[i]}

IsHeader(line) == line # <<>> /\ Head(line) = "#"

\* the line is a header of server s: "# <s> ..."
HeaderOf(line, s) ==
  /\ IsHeader(line)
  /\ Len(line) >= Len(s) + 3
  /\ SubSeq(line, 1, Len(s) + 3) = <<"#", " ">> \o s \o <<" ">>

\* C17 (as claimed): a tool line of the overview, passed alone to
\* get_tools_overview, is answered with an array of one element, which is
\* the tool the line was emitted for, for every tool that emitted the line.
OverviewPathRoundTrips ==
  (lastResp.tool = "get_tools_overview" /\ Len(lastResp.arg) = 1) =>
    \A i \in DOMAIN serversInfo : \A j \in DOMAIN serversInfo[i].tools :
      LET tool == serversInfo[i].tools[j]
      IN  lastResp.arg[1] = ToolLine(serversInfo[i].name, tool.title) =>
            /\ lastResp.body = "tools"
            /\ Len(lastResp.value) = 1
            /\ lastResp.value[1].tool.name = tool.name

\* C18 (as claimed): in the overview every registered server has exactly
\* one header line, and every tool line comes after the header of its own
\* server with no other header in between.
OverviewGroupedPerServer ==
  lastResp.tool = "get_mcps_servers_overview" =>
    LET doc == lastResp.value
    IN  /\ \A s \in RegisteredServers :
             Cardinality({h \in DOMAIN doc : HeaderOf(doc[h], s)}) = 1
        /\ \A i \in DOMAIN doc :
             ~IsHeader(doc[i]) =>
               \E h \in 1 .. (i - 1) :
                 /\ HeaderOf(doc[h], Head(Split(doc[i])))
                 /\ \A m \in (h + 1) .. i : ~IsHeader(doc[m])

\* C19: the overview document is the same for every order in which the
\* registerServer calls can have inserted the entries the registry holds.
OverviewIgnoresInsertionOrder ==
  lastResp.tool = "get_mcps_servers_overview" =>
    \A q \in Orders(serversInfo) : getServersOverview(q) = lastResp.value

\* C19 witness: the overview was asked of a registry with two servers in
\* which the server that sorts last was inserted first.
OverviewOfReversedRegistry ==
  /\ lastResp.tool = "get_mcps_servers_overview"
  /\ Len(serversInfo) = 2
  /\ serversInfo[1].name = SB

\* C20: when a path of get_tools_overview has not exactly two parts or
\* names a server that is not registered, the answer is an error and no
\* array of tools, also when earlier paths were good; for a path that has
\* not two parts the error names that path.
BadPathFailsWholeCall ==
  lastResp.tool = "get_tools_overview" =>
    LET paths == lastResp.arg
        bad == {i \in DOMAIN paths :
                  \/ Len(Split(paths[i])) # 2
                  \/ Head(Split(paths[i])) \notin RegisteredServers}
    IN  bad # {} =>
          LET first == CHOOSE i \in bad : \A h \in bad : i <= h
          IN  /\ ~lastResp.escaped
              /\ lastResp.prefix = "Error: "
              /\ lastResp.body # "tools"
              /\ IF Len(Split(paths[first])) # 2
                 THEN /\ lastResp.body = "Error: Invalid tool path format"
                      /\ lastResp.value = <<paths[first]>>
                 ELSE /\ lastResp.body = "Error: Server not found"
                      /\ lastResp.value = <<Head(Split(paths[first]))>>

\* C20 witness: the first path named a tool of the registry, the second
\* had not two parts, and the call was answered with an error.
GoodThenMalformedFails ==
  /\ lastResp.tool = "get_tools_overview"
  /\ Len(lastResp.arg) = 2
  /\ lastResp.arg[1] \in {ToolLine(p[1], convertToolName(p[2])) : p \in RegistryPairs}
  /\ Len(Split(lastResp.arg[2])) # 2
  /\ lastResp.prefix = "Error: "

\* the paths of a request that name a tool of the registry by its title
Resolves(path) ==
  /\ Len(Split(path)) = 2
  /\ \E i \in DOMAIN serversInfo : \E j \in DOMAIN serversInfo[i].tools :
       path = ToolLine(serversInfo[i].name, serversInfo[i].tools[j].title)

RECURSIVE Resolving(_)
Resolving(paths) ==
  IF paths = <<>> THEN <<>>
  ELSE (IF Resolves(Head(paths)) THEN <<Head(paths)>> ELSE <<>>)
         \o Resolving(Tail(paths))

\* C21: when every path of get_tools_overview has two parts and names a
\* registered server, the answer is the array of the tools that the
\* resolving paths name, one per resolving path and in the order of the
\* paths; a path of an unknown tool contributes nothing.
UnknownToolSkipped ==
  (/\ lastResp.tool = "get_tools_overview"
   /\ \A i \in DOMAIN lastResp.arg :
        /\ Len(Split(lastResp.arg[i])) = 2
        /\ Head(Split(lastResp.arg[i])) \in RegisteredServers)
  => LET good == Resolving(lastResp.arg)
     IN  /\ lastResp.body = "tools"
         /\ lastResp.prefix = ""
         /\ Len(lastResp.value) = Len(good)
         /\ \A m \in DOMAIN good :
              ToolLine(lastResp.value[m].exampleUsage[1],
                       lastResp.value[m].tool.title) = good[m]

\* C21 witness: a path of an unknown tool came first and a resolving path
\* second, and the array holds the one tool.
SkippedThenFound ==
  /\ lastResp.tool = "get_tools_overview"
  /\ Len(lastResp.arg) = 2
  /\ Len(Split(lastResp.arg[1])) = 2
  /\ Head(Split(lastResp.arg[1])) \in RegisteredServers
  /\ ~Resolves(lastResp.arg[1])
  /\ Resolves(lastResp.arg[2])
  /\ Len(lastResp.value) = 1

\* a JavaScript identifier over the modelled characters
ValidIdentifier(x) ==
  /\ x # <<>>
  /\ \A i \in DOMAIN x : x[i] \in IdentChars
  /\ Head(x) \notin Digits

\* C22 (as claimed): once registerAll has returned, the titles of the
\* tools of every server of C5 are valid identifiers and pairwise distinct.
TitlesUniquePerServer ==
  Started =>
    \A i \in DOMAIN serversInfo :
      LET tools == serversInfo[i].tools
      IN  /\ \A j \in DOMAIN tools : ValidIdentifier(tools[j].title)
          /\ \A j, h \in DOMAIN tools :
               j # h => tools[j].title # tools[h].title

\* C23: converting a title again gives the same title, and a title has no
\* character outside [A-Za-z0-9_] and does not start with a digit.
TitleConversionIdempotent ==
  (lastResp.tool = "convertToolName" /\ Len(lastResp.value) = 2) =>
    /\ lastResp.value[2] = lastResp.value[1]
    /\ \A i \in DOMAIN lastResp.value[1] : lastResp.value[1][i] \in IdentChars
    /\ lastResp.value[1] # <<>> => Head(lastResp.value[1]) \notin Digits

\* C23 witness: a name that starts with a digit and holds a run of other
\* characters was converted twice.
DigitNameConvertedTwice ==
  /\ lastResp.tool = "convertToolName"
  /\ Len(lastResp.value) = 2
  /\ Len(lastResp.arg) = 3
  /\ Head(lastResp.arg) \in Digits
  /\ lastResp.arg[2] \notin IdentChars
  /\ lastResp.arg[3] \notin IdentChars

IndexEqualsRegistry ==
  pc \in {"materialize", "bind", "bound"} => index = RegistryPairs

\* C25 witness: the start found ids of tools in the index directory that
\* are not registered now, and the rebuild left only the registered tools.
StaleIdsDropped ==
  /\ pc = "bound"
  /\ RegistryPairs # {}
  /\ index = RegistryPairs
  /\ indexBefore \ RegistryPairs # {}

\* C26: a request for a tool name the dispatcher does not route is
\* answered with the text Tool '<name>' not found, as a result and not as
\* an exception, and the step changes nothing but the answer.
UnknownToolAnswered ==
  [][(lastResp' # lastResp /\ lastResp'.tool \notin MetaTools /\ Serving) =>
       /\ ~lastResp'.escaped
       /\ lastResp'.prefix = "Tool '"
       /\ lastResp'.value = <<lastResp'.tool>>
       /\ lastResp'.body = "' not found"
       /\ lastResp'.isError = "absent"
       /\ UNCHANGED <<pc, config, conn, reg, memVars, db, live, req,
                      exitCode>>]_vars

\* C26 witness: an unknown name was answered while a script of another
\* request was running with a captured response in the cache.
UnknownNameWhileScriptRuns ==
  /\ lastResp.tool = "list_tools"
  /\ lastResp.body = "' not found"
  /\ \E r \in Reqs : req[r].pc = "script"
  /\ \E s \in DOMAIN cache : cache[s] # <<>>

\* C27: a server that fails to spawn does not end the start: the step
\* that records the failure leaves the process running where it was. A
\* failure to open the store, to build the index or to bind the transport
\* ends the process with exit code 1; a process that ended has answered
\* no request, has none in flight and never leaves the exit state.
FatalStartupExitsOne ==
  [][/\ (\E s \in Servers : conn[s] = "pending" /\ conn'[s] = "failed") =>
          (pc' = pc /\ exitCode' = "running")
     /\ (pc \in {"open", "rebuild", "bind"} /\ pc' \notin {pc, "exit"}) =>
          exitCode' = "running"
     /\ pc' = "exit" =>
          /\ exitCode' = "1"
          /\ lastResp' = NoResp
          /\ \A r \in Reqs : req'[r] = IdleReq
     /\ exitCode' # "running" => pc' = "exit"
     /\ pc = "exit" => pc' = "exit"]_vars

\* C27 witness: a server failed to spawn, the start went on through the
\* registration and the sandbox, and the bind failure ended the process
\* with exit code 1.
ExitAfterSurvivedSpawnFailure ==
  /\ pc = "exit"
  /\ exitCode = "1"
  /\ sbReady
  /\ \E s \in config : conn[s] = "failed"
  /\ RegisteredServers # {}

\* C28 (as claimed): every schema a drain writes to a row was synthesized
\* from a response the downstream returned to a stub for that tool of that
\* server; nothing else a script does causes a schema write.
InferredRowsFromDownstream ==
  [][Serving =>
       \A k \in DOMAIN db' :
         (k \in DOMAIN db /\ db'[k] # db[k]) =>
           \E p \in Captured(cache) :
             LET e == cache[p[1]][p[2]]
             IN  /\ e.viaStub
                 /\ p[1] = k[1]
                 /\ e.toolName = k[2]
                 /\ convertOutputToSchema(e.output) = db'[k].outputSchema]_vars

\* the schema the registry holds for the tool of key k
RegistrySchema(info, k) ==
  LET tools == info[CHOOSE i \in DOMAIN info : info[i].name = k[1]].tools
  IN  tools[CHOOSE j \in DOMAIN tools : tools[j].name = k[2]].outputSchema

\* the (server, tool) pairs of a registry
PairsOf(info) ==
  UNION { {<<info[i].name, info[i].tools[j].name>> :
             j \in DOMAIN info[i].tools} : i \in DOMAIN info }

\* C29: once the server is bound, no step changes the servers of the
\* registry, their order, their tools or any field of a tool but its
\* outputSchema, and an outputSchema changes only for a tool that has a
\* row in the store whose schema is not original.
RegistryFrame ==
  [][Serving =>
       /\ DOMAIN serversInfo' = DOMAIN serversInfo
       /\ PairsOf(serversInfo') = PairsOf(serversInfo)
       /\ \A i \in DOMAIN serversInfo :
            /\ serversInfo'[i].name = serversInfo[i].name
            /\ DOMAIN serversInfo'[i].tools = DOMAIN serversInfo[i].tools
            /\ \A j \in DOMAIN serversInfo[i].tools :
                 LET old == serversInfo[i].tools[j]
                     new == serversInfo'[i].tools[j]
                     k == <<serversInfo[i].name, old.name>>
                 IN  /\ new = [old EXCEPT !.outputSchema = new.outputSchema]
                     /\ new.outputSchema # old.outputSchema =>
                          /\ k \in DOMAIN db
                          /\ ~db[k].originalOutputSchema
                          /\ ~db'[k].originalOutputSchema]_vars

\* C29 witness: a drain went through a tool with an original schema and a
\* tool without one; the registry holds the inferred schema for the second
\* and the same three pairs as before.
FrameKeptByDrain ==
  /\ lastResp.body = "result"
  /\ Cardinality(RegistryPairs) = 3
  /\ \E k \in lastResp.drained \cap RegistryPairs :
       /\ k \in DOMAIN db
       /\ db[k].originalOutputSchema
       /\ RegistrySchema(serversInfo, k) = db[k].outputSchema
  /\ \E k \in lastResp.drained \cap RegistryPairs :
       /\ k \in DOMAIN db
       /\ ~db[k].originalOutputSchema
       /\ RegistrySchema(serversInfo, k) = "I_c"

\* C30: when a drain ends, the registry holds, for every tool of it whose
\* row the drain wrote, the schema that row holds now; and no step changes
\* the schema of a tool in the registry unless it is the schema its row
\* holds after the step, written by a drain that went through that tool.
SchemaLockstep ==
  [][Serving =>
       \A k \in RegistryPairs :
         /\ (/\ lastResp'.body = "result"
             /\ \E r \in Reqs : req[r].pc = "script" /\ req'[r].pc = "idle"
             /\ k \in CapturedKeys(cache)
             /\ WritesInferred(db, k[1], k[2])) =>
               /\ k \in DOMAIN db'
               /\ RegistrySchema(serversInfo', k) = db'[k].outputSchema
         /\ RegistrySchema(serversInfo', k) # RegistrySchema(serversInfo, k) =>
               /\ k \in CapturedKeys(cache)
               /\ WritesInferred(db, k[1], k[2])
               /\ k \in DOMAIN db'
               /\ RegistrySchema(serversInfo', k) = db'[k].outputSchema]_vars

\* C30 witness: a drain wrote the schema of an error response to the row
\* of a tool and the registry holds that schema for the tool.
RowAndRegistryAgree ==
  /\ lastResp.body = "result"
  /\ \E k \in lastResp.drained \cap RegistryPairs :
       /\ k \in DOMAIN db
       /\ ~db[k].originalOutputSchema
       /\ db[k].outputSchema = "I_e"
       /\ RegistrySchema(serversInfo, k) = "I_e"

\* C31: the entries the stubs pushed to the bucket of a server stand in the
\* order in which the stubs received the responses, also when a script has
\* several calls to the server in flight and a later call is answered
\* first.
BucketInReceiveOrder ==
  \A s \in DOMAIN cache :
    \A i, j \in DOMAIN cache[s] :
      (i < j /\ cache[s][i].viaStub /\ cache[s][j].viaStub) =>
        cache[s][i].received < cache[s][j].received

\* C31 witness: a script had two calls to one server in flight, the later
\* call was answered first, and the bucket holds both responses.
FanOutAnsweredOutOfOrder ==
  \E s \in DOMAIN cache :
    /\ Len(cache[s]) = 2
    /\ cache[s][1].viaStub /\ cache[s][2].viaStub
    /\ cache[s][1].overtook
    /\ ~cache[s][2].overtook
    /\ cache[s][1].received = 1

\* C32: a step in which a stub throws to its script (the server is not in
\* the sandbox map, it has no client, or callTool rejected) leaves the
\* output cache, the store and the registry as they were and issues no
\* downstream call.
StubThrowLeavesCache ==
  [][\A r \in Reqs :
       (/\ req'[r].last = "threw"
        /\ req'[r].pc = req[r].pc
        /\ \/ req[r].last # "threw"
           \/ Len(req'[r].calls) < Len(req[r].calls)) =>
         /\ cache' = cache
         /\ db' = db
         /\ serversInfo' = serversInfo
         /\ Len(req'[r].calls) <= Len(req[r].calls)
         /\ \A q \in Reqs \ {r} : req'[q] = req[q]]_vars

\* C32 witness: a call of a running script was rejected while the bucket
\* of a server held a captured response and another call was in flight.
RejectedBesideCaptured ==
  \E r \in Reqs :
    /\ req[r].pc = "script"
    /\ req[r].last = "threw"
    /\ InFlight # {}
    /\ Captured(cache) # {}

\* C33: a drain in which the store calls of some captured outputs throw, or
\* which meets an output of a tool without a row, still handles every other
\* captured output (the row of a tool without an original schema holds the
\* schema of the last output of the tool that did not fail, every other
\* row is as before), empties every bucket and hands the result of the
\* script to the dispatcher as a result.
DrainIsolatesFailures ==
  [][(/\ lastResp'.body = "result"
      /\ \E r \in Reqs : req[r].pc = "script" /\ req'[r].pc = "idle") =>
       /\ \A s \in DOMAIN cache' : cache'[s] = <<>>
       /\ DOMAIN cache' = DOMAIN cache
       /\ ~lastResp'.escaped
       /\ lastResp'.prefix = ""
       /\ DOMAIN db' = DOMAIN db
       /\ \A k \in DOMAIN db :
            LET good == {p \in Captured(cache) \ lastResp'.failed :
                           /\ p[1] = k[1]
                           /\ cache[p[1]][p[2]].toolName = k[2]}
                last == Max({p[2] : p \in good})
            IN  IF good # {} /\ ~db[k].originalOutputSchema
                THEN /\ ~db'[k].originalOutputSchema
                     /\ db'[k].outputSchema =
                          convertOutputToSchema(cache[k[1]][last].output)
                ELSE db'[k] = db[k]]_vars

\* C33 witness: the store call of one captured output threw and the drain
\* wrote the schema of an output of another server's tool.
DrainWentOnAfterFailure ==
  /\ lastResp.body = "result"
  /\ lastResp.failed # {}
  /\ \A s \in DOMAIN cache : cache[s] = <<>>
  /\ \E k \in lastResp.drained :
       /\ k[1] \notin {p[1] : p \in lastResp.failed}
       /\ k \in DOMAIN db
       /\ ~db[k].originalOutputSchema
       /\ db[k].outputSchema \in {"I_c", "I_e"}

\* C34 (as claimed): every entry a stub pushed to the cache is handled by
\* exactly one drain before it is cleared, also when the
\* run_functions_code calls of two requests overlap: no entry is handled
\* by two drains and none leaves the cache unhandled.
CapturedOutputExaminedOnce ==
  [][/\ \A p \in Captured(cache') : cache'[p[1]][p[2]].examined <= 1
     /\ \A p \in Captured(cache) :
          p \notin Captured(cache') => cache[p[1]][p[2]].examined = 1]_vars

\* C35 (as claimed): for a server name at most one registerServer call
\* ever succeeds, also when two calls for the name overlap: no call
\* succeeds for a name that is registered, and the entry of a registered
\* name is never replaced.
RegisteredAtMostOnce ==
  [][\A s \in Servers :
       hasServer(s) =>
         /\ ~(reg[s] = "listing" /\ reg'[s] = "done")
         /\ \E i \in DOMAIN serversInfo' : serversInfo'[i] = getServer(s)]_vars

\* C36 (as claimed): every fullPath that semantic_search_tools returns for
\* a tool of C5, given to get_tools_overview as its only path, resolves to
\* the server and the tool of the search result, also for a tool whose
\* title differs from its name.
SearchPathsResolve ==
  lastResp.tool = "semantic_search_tools" =>
    \A i \in DOMAIN lastResp.value :
      LET r == lastResp.value[i]
          o == getToolsOverview(serversInfo, <<r.fullPath>>)
      IN  (/\ hasServer(r.serverName)
           /\ \E j \in DOMAIN getServer(r.serverName).tools :
                getServer(r.serverName).tools[j].name = r.toolName)
            => /\ o.ok
               /\ Len(o.tools) = 1
               /\ o.tools[1].tool.name = r.toolName
               /\ o.tools[1].exampleUsage[1] = r.serverName

\* C37 (as claimed): for every entry that get_tools_overview returns, the
\* file its exampleUsage requires, ./<server>/<title>.cjs, is a stub the
\* sandbox has written, and that stub calls the downstream tool the entry
\* describes.
ExampleUsageNamesItsStub ==
  (lastResp.tool = "get_tools_overview" /\ lastResp.body = "tools") =>
    \A i \in DOMAIN lastResp.value :
      LET e == lastResp.value[i]
      IN  /\ e.exampleUsage \in DOMAIN files
          /\ files[e.exampleUsage] = e.tool.name

DiscoveryTools ==
  {"get_mcps_servers_overview", "get_tools_overview", "semantic_search_tools"}

\* C38: a call of get_mcps_servers_overview, get_tools_overview or
\* semantic_search_tools, whether it answers with its result or with an
\* error, leaves the map of C5 with every tool's outputSchema, the cache of
\* captured outputs and the rows of C2 as they were.
DiscoveryReadOnly ==
  [][(lastResp' # lastResp /\ lastResp'.tool \in DiscoveryTools)
       => /\ serversInfo' = serversInfo
          /\ cache' = cache
          /\ db' = db]_vars

\* C38 witness: get_tools_overview has answered with an error while a
\* script was running whose captured output waits in the cache, and an
\* earlier drain has inferred the schema of a tool.
DiscoveryFailedBesideCapturedOutput ==
  /\ lastResp.tool = "get_tools_overview"
  /\ lastResp.prefix = "Error: "
  /\ Captured(cache) # {}
  /\ \E r \in Reqs : req[r].pc = "script"
  /\ \E k \in DOMAIN db :
       db[k].outputSchema # "none" /\ ~db[k].originalOutputSchema
  /\ \E i \in DOMAIN serversInfo : \E j \in DOMAIN serversInfo[i].tools :
       serversInfo[i].tools[j].outputSchema # "none"

====
